---- MODULE Spec2Model ----
(***************************************************************************)
(* chainrag backend: the preparation job manager (prepare_endpoint,        *)
(* run_pipeline, prepare_status), the index cache (load_vector_store) and  *)
(* the builder scripts (fetch_data.py, ingest_data.py) as far as they      *)
(* decide what the job record and the persisted index look like.           *)
(*                                                                         *)
(* Threads: one event-loop thread runs the async request handlers one at   *)
(* a time (no handler awaits), and every started build is a daemon thread  *)
(* running run_pipeline.  Handler statements interleave with worker        *)
(* statements; PREP_STATUS, VECTOR_CACHE and the disk are shared.          *)
(***************************************************************************)
EXTENDS Integers, Sequences, FiniteSets, TLC

\* ---------------------------------------------------------------- bounds
\* number of run_pipeline threads started in one run of the process
MaxThreads == 2

\* ------------------------------------------------------------ tag strings
\* Strings are sequences of one-character strings. GoodChars are the characters
\* of the class [a-zA-Z0-9_-] the model writes; every other character is
\* outside the class.
GoodChars == {"a", "A", "b", "-", "r", "u", "n", "0", "1"}

LowerOf(c) == IF c = "A" THEN "a" ELSE c

\* re.sub(r"[^a-zA-Z0-9_-]+", "-", s): every maximal run of characters
\* outside the class becomes one "-"
RECURSIVE re_sub(_, _)
re_sub(s, inRun) ==
    IF s = << >> THEN << >>
    ELSE IF Head(s) \in GoodChars THEN <<Head(s)>> \o re_sub(Tail(s), FALSE)
    ELSE IF inRun THEN re_sub(Tail(s), TRUE)
    ELSE <<"-">> \o re_sub(Tail(s), TRUE)

RECURSIVE lstrip(_)
lstrip(s) == IF s # << >> /\ Head(s) = "-" THEN lstrip(Tail(s)) ELSE s

RECURSIVE rstrip(_)
rstrip(s) ==
    IF s # << >> /\ s[Len(s)] = "-" THEN rstrip(SubSeq(s, 1, Len(s) - 1)) ELSE s

strip(s) == rstrip(lstrip(s))

lower(s) == [i \in 1..Len(s) |-> LowerOf(s[i])]

\* backend/main.py sanitize_tag had strip("-") been applied before re.sub
sanitize_tag_strip_first(raw_tag) == lower(re_sub(strip(raw_tag), FALSE))

\* backend/main.py sanitize_tag
sanitize_tag(raw_tag) == lower(strip(re_sub(raw_tag, FALSE)))

\* the account identifiers clients send to /prepare
Addresses == {<<"A">>, <<"b">>}

\* the tag parameters clients send to /prepare/status and /chat
RawTags == Addresses

Tags == {sanitize_tag(a) : a \in Addresses}

\* ------------------------------------------------------------------ state
VARIABLES
    PREP_STATUS,   \* main.py:53  dict tag -> {"state", "message"}
    VECTOR_CACHE,  \* main.py:50  dict tag -> loaded store
    jsonl,         \* per tag: the documents <tag>_documents.jsonl holds
    disk,          \* data/vector_db/<tag>/ : the directory and its two files
    nthreads,      \* number of run_pipeline threads started so far
    wpc,           \* per thread: the statement run_pipeline is at
    wargs,         \* per thread: args=(tag, req.address)
    fetch_res,     \* per thread: outcome of the fetch_data.py subprocess
    wstore,        \* per thread: what FAISS.load_local has read so far
    hpc,           \* event-loop thread: the statement the handler is at
    hreq,          \* event-loop thread: the request being handled
    hstore,        \* event-loop thread: what FAISS.load_local has read so far
    resp           \* the response the last step sent to a client, if it sent one

vars == <<PREP_STATUS, VECTOR_CACHE, jsonl, disk, nthreads, wpc, wargs,
          fetch_res, wstore, hpc, hreq, hstore, resp>>

Threads == 1..MaxThreads

\* ------------------------------------------------------------ dict helpers
Has(d, k) == k \in DOMAIN d
Put(d, k, v) == [x \in (DOMAIN d) \cup {k} |-> IF x = k THEN v ELSE d[x]]
\* main.py:110 had it been VECTOR_CACHE.clear()
Pop_clear(d, k) == [x \in {} |-> 0]

Pop(d, k) == [x \in (DOMAIN d) \ {k} |-> d[x]]
EmptyDict == [x \in {} |-> 0]

\* ------------------------------------------------------------ job records
Rec(s, m) == [state |-> s, message |-> m]

Queued == Rec("running", "Queued...")
Fetching == Rec("running", "Fetching data...")
Embedding == Rec("running", "Building embeddings...")
Done == Rec("done", "Vector DB ready.")
Unknown == Rec("unknown", "No job found.")

\* main.py:91,105  fetch_res.stderr or "fetch_data failed"
OrDefault(stderr, dflt) == IF stderr = "" THEN dflt ELSE stderr

\* an uncaught exception in a script leaves its traceback on stderr
Traceback == "Traceback (most recent call last)"

FetchError == Rec("error", OrDefault(Traceback, "fetch_data failed"))
IngestError == Rec("error", OrDefault(Traceback, "ingest_data failed"))
\* str(e) of the HTTPException load_vector_store raises
NotFoundDetail == "404: Vector DB not found."
LoadFailedDetail == "500: Failed to load vector DB"
ExceptError(detail) == Rec("error", detail)

\* ------------------------------------------------------------------ disk
NoFile == 0
\* an index persisted by an earlier run of the process
OldIndex == 1
\* the index content thread w's ingest_data.py writes
IndexOf(w) == w + 1

NoDir == [dir |-> FALSE, faiss |-> NoFile, pkl |-> NoFile]
OldDir == [dir |-> TRUE, faiss |-> OldIndex, pkl |-> OldIndex]

\* the tags an earlier run of the process may have left an index for
OldTags == {sanitize_tag(<<"A">>)}

NoStore == [faiss |-> NoFile, pkl |-> NoFile]

\* resp holds the response a step sends, and NoResp after any other step
NoResp == [op |-> "none", tag |-> << >>, status |-> Unknown, code |-> 0,
           store |-> NoStore]

Init ==
    /\ PREP_STATUS = EmptyDict
    /\ VECTOR_CACHE = EmptyDict
    /\ jsonl = [t \in Tags |-> "none"]
    /\ disk \in {d \in [Tags -> {NoDir, OldDir}] :
                    \A t \in Tags \ OldTags : d[t] = NoDir}
    /\ nthreads = 0
    /\ wpc = [w \in Threads |-> "unborn"]
    /\ wargs = [w \in Threads |-> [tag |-> << >>, address |-> << >>]]
    /\ fetch_res = [w \in Threads |-> "none"]
    /\ wstore = [w \in Threads |-> NoStore]
    /\ hpc = "idle"
    /\ hreq = [tag |-> << >>, address |-> << >>]
    /\ hstore = NoStore
    /\ resp = NoResp

NoReq == [tag |-> << >>, address |-> << >>]

StatusResp(op, tag, status) ==
    [op |-> op, tag |-> tag, status |-> status, code |-> 200, store |-> NoStore]

\* ------------------------------------------------------ POST /prepare
\* main.py:185 had it tested for {"done"} alone
prepare_returns_existing_done_only(d, tag) ==
    Has(d, tag) /\ d[tag].state \in {"done"}

\* main.py:185 had it tested for {"running"} alone
prepare_returns_existing_running_only(d, tag) ==
    Has(d, tag) /\ d[tag].state \in {"running"}

\* main.py:185  existing and existing.get("state") in {"running", "done"}
prepare_returns_existing(d, tag) ==
    Has(d, tag) /\ d[tag].state \in {"running", "done"}

\* main.py:183-186
prepare_endpoint_check(address) ==
    LET tag == sanitize_tag(address) IN
    /\ hpc = "idle"
    /\ IF prepare_returns_existing(PREP_STATUS, tag)
       THEN /\ resp' = StatusResp("prepare_existing", tag, PREP_STATUS[tag])
            /\ UNCHANGED <<hpc, hreq>>
       ELSE /\ nthreads < MaxThreads
            /\ hpc' = "l189"
            /\ hreq' = [tag |-> tag, address |-> address]
            /\ resp' = NoResp
    /\ UNCHANGED <<PREP_STATUS, VECTOR_CACHE, jsonl, disk, nthreads, wpc, wargs,
                   fetch_res, wstore, hstore>>

\* main.py:189-190  threading.Thread(target=run_pipeline, ...).start()
prepare_endpoint_start ==
    /\ hpc = "l189"
    /\ nthreads' = nthreads + 1
    /\ wpc' = [wpc EXCEPT ![nthreads + 1] = "l80"]
    /\ wargs' = [wargs EXCEPT ![nthreads + 1] = hreq]
    /\ hpc' = "l191"
    /\ UNCHANGED <<PREP_STATUS, VECTOR_CACHE, jsonl, disk, fetch_res, wstore,
                   hreq, hstore>> /\ resp' = NoResp

\* main.py:191  PREP_STATUS[tag] = {"state": "running", "message": "Queued..."}
prepare_endpoint_set ==
    /\ hpc = "l191"
    /\ PREP_STATUS' = Put(PREP_STATUS, hreq.tag, Queued)
    /\ hpc' = "l192"
    /\ UNCHANGED <<VECTOR_CACHE, jsonl, disk, nthreads, wpc, wargs, fetch_res, wstore, hreq, hstore>> /\ resp' = NoResp

\* main.py:192  return {"tag": tag, "status": PREP_STATUS[tag]}
prepare_endpoint_return ==
    /\ hpc = "l192"
    /\ resp' = StatusResp("prepare_started", hreq.tag, PREP_STATUS[hreq.tag])
    /\ hpc' = "idle"
    /\ hreq' = NoReq
    /\ UNCHANGED <<PREP_STATUS, VECTOR_CACHE, jsonl, disk, nthreads, wpc, wargs,
                   fetch_res, wstore, hstore>>

\* ------------------------------------------------- GET /prepare/status
\* main.py:197 had it been PREP_STATUS[cleaned]
status_of_keyerror(d, cleaned) ==
    IF Has(d, cleaned) THEN d[cleaned] ELSE Rec("error", "KeyError")

\* main.py:197-200  status = PREP_STATUS.get(cleaned); if not status: unknown
status_of(d, cleaned) == IF Has(d, cleaned) THEN d[cleaned] ELSE Unknown

\* main.py:195-200
prepare_status(tag) ==
    LET cleaned == sanitize_tag(tag) IN
    /\ hpc = "idle"
    /\ resp' = StatusResp("status", cleaned, status_of(PREP_STATUS, cleaned))
    /\ UNCHANGED <<PREP_STATUS, VECTOR_CACHE, jsonl, disk, nthreads, wpc, wargs,
                   fetch_res, wstore, hpc, hreq, hstore>>

\* ------------------------------------------------------ load_vector_store
\* main.py:62  cleaned in VECTOR_CACHE
lvs_cached(cache, cleaned) == Has(cache, cleaned)

\* main.py:66 had the test been left out
lvs_exists_unchecked(d) == TRUE

\* main.py:66  target_dir.exists()
lvs_exists(d) == d.dir

\* main.py:69  FAISS.load_local reads index.faiss, then index.pkl; a missing
\* file raises, which line 72 turns into the 500 HTTPException
lvs_faiss_ok(d) == d.faiss # NoFile
lvs_pkl_ok(d) == d.pkl # NoFile

\* main.py:70  VECTOR_CACHE[cleaned] = store
lvs_store(cache, cleaned, store) == Put(cache, cleaned, store)

\* ------------------------------------------------------------ run_pipeline
\* main.py:80  cleaned = sanitize_tag(tag)
Cleaned(w) == sanitize_tag(wargs[w].tag)

Alive(w) == wpc[w] \notin {"unborn", "exit_ok", "exit_err"}

\* the thread's locals die with it
ThreadEnds(w) ==
    /\ fetch_res' = [fetch_res EXCEPT ![w] = "none"]
    /\ wstore' = [wstore EXCEPT ![w] = NoStore]

\* main.py:81
run_pipeline_l81(w) ==
    /\ wpc[w] = "l80"
    /\ PREP_STATUS' = Put(PREP_STATUS, Cleaned(w), Fetching)
    /\ wpc' = [wpc EXCEPT ![w] = "l89"]
    /\ UNCHANGED <<VECTOR_CACHE, jsonl, disk, nthreads, wargs, fetch_res, wstore, hpc, hreq, hstore>> /\ resp' = NoResp

\* scripts/fetch_data.py sanitize_tag: the timestamp fallback for an empty result
\* datetime.now(timezone.utc) read in two different seconds
Clock == {0, 1}

\* strftime("run-%Y%m%d-%H%M%S"), fetch_data.py:42: the digits are the second
RunTag(now) == <<"r", "u", "n", "-", IF now = 0 THEN "0" ELSE "1">>

fetch_sanitize_tag(raw_tag, now) ==
    LET cleaned == lower(strip(re_sub(raw_tag, FALSE))) IN
    IF cleaned = << >> THEN RunTag(now) ELSE cleaned

\* What one run of fetch_data.py can come to:
\*   "docs"    both Etherscan calls answer, the account has transactions
\*   "empty"   Etherscan answers "No transactions found" (fetch_data.py:69-70)
\*   "apifail" Etherscan refuses or the request raises; call_etherscan prints
\*             a warning and returns [] (fetch_data.py:72-74, 77-79)
\*   "crash"   an uncaught exception before write_jsonl: non-zero returncode
FetchOutcomes == {"docs", "empty", "apifail", "crash"}

\* fetch_data.py:212-216  what main() writes to <tag>_documents.jsonl
fetch_writes(outcome) == IF outcome = "docs" THEN "docs" ELSE "none"

\* fetch_res.returncode != 0
fetch_failed_rc(outcome) == outcome = "crash"

\* main.py:83-94  subprocess.run(fetch_cmd) and the returncode test after it
run_pipeline_fetch(w) ==
    /\ wpc[w] = "l89"
    /\ \E o \in FetchOutcomes, now \in Clock :
        IF fetch_failed_rc(o)
        THEN /\ PREP_STATUS' = Put(PREP_STATUS, Cleaned(w), FetchError)
             /\ wpc' = [wpc EXCEPT ![w] = "exit_err"]
             /\ ThreadEnds(w)
             /\ UNCHANGED jsonl
        ELSE /\ jsonl' = [jsonl EXCEPT ![fetch_sanitize_tag(wargs[w].address, now)] =
                              fetch_writes(o)]
             /\ fetch_res' = [fetch_res EXCEPT ![w] = o]
             /\ PREP_STATUS' = Put(PREP_STATUS, Cleaned(w), Embedding)
             /\ wpc' = [wpc EXCEPT ![w] = "l103"]
             /\ UNCHANGED << wstore>>
    /\ UNCHANGED <<VECTOR_CACHE, disk, nthreads, wargs, hpc, hreq, hstore>>
    /\ resp' = NoResp

\* ingest_data.py:120-124  docs = load_documents_from_jsonl(...); if not docs: return
ingest_has_docs(file) == file = "docs"

\* What ingest_data.py can come to once it has documents:
\*   "ok"         embeds and saves the index
\*   "model_fail" HuggingFaceEmbeddings raises; main() prints and returns
\*                (ingest_data.py:130-136): returncode 0, nothing written
\*   "crash"      FAISS.from_documents raises: non-zero returncode
\* and without documents it prints "No documents found" and returns
\* (ingest_data.py:122-124): returncode 0, nothing written ("no_docs").
IngestOutcomes == {"ok", "model_fail", "crash"}

\* ingest_res.returncode != 0
ingest_failed_rc(outcome) == outcome = "crash"

\* main.py:95-108 subprocess.run(ingest_cmd).  A run that saves an index goes
\* on to ingest_data.py:149 mkdir and the two writes of save_local; a run that
\* ends without one returns to main.py:104 at once.
run_pipeline_ingest(w) ==
    /\ wpc[w] = "l103"
    /\ \E o \in IF ingest_has_docs(jsonl[Cleaned(w)]) THEN IngestOutcomes
                ELSE {"no_docs"} :
        IF o = "ok"
        THEN /\ disk' = [disk EXCEPT ![Cleaned(w)].dir = TRUE]
             /\ wpc' = [wpc EXCEPT ![w] = "save_faiss"]
             /\ fetch_res' = [fetch_res EXCEPT ![w] = "none"]
             /\ UNCHANGED <<PREP_STATUS, wstore>>
        ELSE IF ingest_failed_rc(o)
        THEN /\ PREP_STATUS' = Put(PREP_STATUS, Cleaned(w), IngestError)
             /\ wpc' = [wpc EXCEPT ![w] = "exit_err"]
             /\ ThreadEnds(w)
             /\ UNCHANGED disk
        ELSE /\ PREP_STATUS' = Put(PREP_STATUS, Cleaned(w), Done)
             /\ wpc' = [wpc EXCEPT ![w] = "l110"]
             /\ fetch_res' = [fetch_res EXCEPT ![w] = "none"]
             /\ UNCHANGED <<disk, wstore>>
    /\ UNCHANGED <<VECTOR_CACHE, jsonl, nthreads, wargs, hpc, hreq, hstore>>
    /\ resp' = NoResp

\* ingest_data.py:151 save_local, first file: index.faiss
ingest_save_faiss(w) ==
    /\ wpc[w] = "save_faiss"
    /\ disk' = [disk EXCEPT ![Cleaned(w)].faiss = IndexOf(w)]
    /\ wpc' = [wpc EXCEPT ![w] = "save_pkl"]
    /\ UNCHANGED <<PREP_STATUS, VECTOR_CACHE, jsonl, nthreads, wargs, fetch_res,
                   wstore, hpc, hreq, hstore>>
    /\ resp' = NoResp

\* ingest_data.py:151 save_local, second file: index.pkl; the script ends with
\* returncode 0
ingest_save_pkl(w) ==
    /\ wpc[w] = "save_pkl"
    /\ disk' = [disk EXCEPT ![Cleaned(w)].pkl = IndexOf(w)]
    /\ wpc' = [wpc EXCEPT ![w] = "l104"]
    /\ UNCHANGED <<PREP_STATUS, VECTOR_CACHE, jsonl, nthreads, wargs, fetch_res,
                   wstore, hpc, hreq, hstore>>
    /\ resp' = NoResp

\* main.py:104-108 after a run of ingest_data.py that saved its index
run_pipeline_l104(w) ==
    /\ wpc[w] = "l104"
    /\ PREP_STATUS' = Put(PREP_STATUS, Cleaned(w), Done)
    /\ wpc' = [wpc EXCEPT ![w] = "l110"]
    /\ UNCHANGED <<VECTOR_CACHE, jsonl, disk, nthreads, wargs, fetch_res,
                   wstore, hpc, hreq, hstore>>
    /\ resp' = NoResp

\* main.py:110  VECTOR_CACHE.pop(cleaned, None)
run_pipeline_l110(w) ==
    /\ wpc[w] = "l110"
    /\ VECTOR_CACHE' = Pop(VECTOR_CACHE, Cleaned(w))
    /\ wpc' = [wpc EXCEPT ![w] = "lvs62"]
    /\ UNCHANGED <<PREP_STATUS, jsonl, disk, nthreads, wargs, fetch_res, wstore, hpc, hreq, hstore>> /\ resp' = NoResp

\* main.py:112-113  except Exception as e: PREP_STATUS[cleaned] = error
run_pipeline_except(w, detail) ==
    /\ PREP_STATUS' = Put(PREP_STATUS, Cleaned(w), ExceptError(detail))
    /\ wpc' = [wpc EXCEPT ![w] = "exit_err"]
    /\ ThreadEnds(w)
    /\ UNCHANGED <<VECTOR_CACHE, jsonl, disk, nthreads, wargs, hpc, hreq, hstore>>
    /\ resp' = NoResp

\* main.py:111 load_vector_store(cleaned), lines 61-63
run_pipeline_lvs62(w) ==
    /\ wpc[w] = "lvs62"
    /\ IF lvs_cached(VECTOR_CACHE, Cleaned(w))
       THEN /\ wpc' = [wpc EXCEPT ![w] = "exit_ok"]
            /\ ThreadEnds(w)
       ELSE /\ wpc' = [wpc EXCEPT ![w] = "lvs66"]
            /\ UNCHANGED <<fetch_res, wstore>>
    /\ UNCHANGED <<PREP_STATUS, VECTOR_CACHE, jsonl, disk, nthreads, wargs,
                   hpc, hreq, hstore>>
    /\ resp' = NoResp

\* main.py:65-69: the directory test and load_local's two reads; a raise is
\* caught at line 112.  Only this tag's own build writes the directory, so the
\* three reads of the thread see one state of it.
run_pipeline_lvs66(w) ==
    LET d == disk[Cleaned(w)] IN
    /\ wpc[w] = "lvs66"
    /\ IF ~lvs_exists(d) THEN run_pipeline_except(w, NotFoundDetail)
       ELSE IF ~(lvs_faiss_ok(d) /\ lvs_pkl_ok(d))
       THEN run_pipeline_except(w, LoadFailedDetail)
       ELSE /\ wstore' = [wstore EXCEPT ![w] = [faiss |-> d.faiss, pkl |-> d.pkl]]
            /\ wpc' = [wpc EXCEPT ![w] = "lvs70"]
            /\ UNCHANGED <<PREP_STATUS, VECTOR_CACHE, jsonl, disk, nthreads,
                           wargs, fetch_res, hpc, hreq, hstore>>
            /\ resp' = NoResp

\* main.py:70-71, and run_pipeline falls off its end
run_pipeline_lvs70(w) ==
    /\ wpc[w] = "lvs70"
    /\ VECTOR_CACHE' = lvs_store(VECTOR_CACHE, Cleaned(w), wstore[w])
    /\ wpc' = [wpc EXCEPT ![w] = "exit_ok"]
    /\ ThreadEnds(w)
    /\ UNCHANGED <<PREP_STATUS, jsonl, disk, nthreads, wargs, hpc, hreq, hstore>>
    /\ resp' = NoResp

\* ------------------------------------------------------------ POST /chat
ChatResp(tag, code, store) ==
    [op |-> "chat", tag |-> tag, status |-> Unknown, code |-> code,
     store |-> store]

\* main.py:204-206 with load_vector_store lines 61-63; on a hit the query is
\* answered from the cached store
chat_endpoint_lvs62(tag) ==
    LET cleaned == sanitize_tag(tag) IN
    /\ hpc = "idle"
    /\ IF lvs_cached(VECTOR_CACHE, cleaned)
       THEN /\ resp' = ChatResp(cleaned, 200, VECTOR_CACHE[cleaned])
            /\ UNCHANGED <<hpc, hreq>>
       ELSE /\ hpc' = "lvs66"
            /\ hreq' = [tag |-> cleaned, address |-> << >>]
            /\ resp' = NoResp
    /\ UNCHANGED <<PREP_STATUS, VECTOR_CACHE, jsonl, disk, nthreads, wpc, wargs,
                   fetch_res, wstore, hstore>>

\* load_vector_store raises: the handler answers with the HTTP error
chat_raise(code) ==
    /\ resp' = ChatResp(hreq.tag, code, NoStore)
    /\ hpc' = "idle"
    /\ hreq' = NoReq
    /\ hstore' = NoStore
    /\ UNCHANGED <<PREP_STATUS, VECTOR_CACHE, jsonl, disk, nthreads, wpc, wargs,
                   fetch_res, wstore>>

\* main.py:65-69: the directory test and load_local's read of index.faiss.  A
\* directory is never removed, so the test and the read see one state of it.
chat_endpoint_lvs66 ==
    /\ hpc = "lvs66"
    /\ IF ~lvs_exists(disk[hreq.tag]) THEN chat_raise(404)
       ELSE IF ~lvs_faiss_ok(disk[hreq.tag]) THEN chat_raise(500)
       ELSE /\ hstore' = [hstore EXCEPT !.faiss = disk[hreq.tag].faiss]
            /\ hpc' = "lvs69b"
            /\ UNCHANGED <<PREP_STATUS, VECTOR_CACHE, jsonl, disk, nthreads, wpc,
                           wargs, fetch_res, wstore, hreq>>
            /\ resp' = NoResp

\* main.py:69 load_local reading index.pkl
chat_endpoint_lvs69b ==
    /\ hpc = "lvs69b"
    /\ IF lvs_pkl_ok(disk[hreq.tag])
       THEN /\ hstore' = [hstore EXCEPT !.pkl = disk[hreq.tag].pkl]
            /\ hpc' = "lvs70"
            /\ UNCHANGED <<PREP_STATUS, VECTOR_CACHE, jsonl, disk, nthreads, wpc,
                           wargs, fetch_res, wstore, hreq>> /\ resp' = NoResp
       ELSE chat_raise(500)

\* main.py:70-71, then the query is answered from the loaded store
chat_endpoint_lvs70 ==
    /\ hpc = "lvs70"
    /\ VECTOR_CACHE' = lvs_store(VECTOR_CACHE, hreq.tag, hstore)
    /\ resp' = ChatResp(hreq.tag, 200, hstore)
    /\ hpc' = "idle"
    /\ hreq' = NoReq
    /\ hstore' = NoStore
    /\ UNCHANGED <<PREP_STATUS, jsonl, disk, nthreads, wpc, wargs, fetch_res, wstore>>

\* ---------------------------------------------------------- specification
WorkerStep(w) ==
    \/ run_pipeline_l81(w)
    \/ run_pipeline_fetch(w)
    \/ run_pipeline_ingest(w)
    \/ ingest_save_faiss(w)
    \/ ingest_save_pkl(w)
    \/ run_pipeline_l104(w)
    \/ run_pipeline_l110(w)
    \/ run_pipeline_lvs62(w)
    \/ run_pipeline_lvs66(w)
    \/ run_pipeline_lvs70(w)

HandlerStep ==
    \/ prepare_endpoint_start
    \/ prepare_endpoint_set
    \/ prepare_endpoint_return
    \/ chat_endpoint_lvs66
    \/ chat_endpoint_lvs69b
    \/ chat_endpoint_lvs70

Next ==
    \/ \E a \in Addresses : prepare_endpoint_check(a)
    \/ \E a \in RawTags : prepare_status(a)
    \/ \E a \in RawTags : chat_endpoint_lvs62(a)
    \/ HandlerStep
    \/ \E w \in Threads : WorkerStep(w)

Spec == Init /\ [][Next]_vars

\* A started handler runs to its return and a started thread runs to its end:
\* the event loop and the thread scheduler starve neither.
FairSpec ==
    /\ Spec
    /\ WF_vars(HandlerStep)
    /\ \A w \in Threads : WF_vars(WorkerStep(w))

\* ------------------------------------------------------- Python values
\* The intent extractor returns parsed JSON and a document's metadata holds
\* parsed JSON: values are kept with their Python type, since lines 220-260
\* test types and truthiness.
None == [t |-> "NoneType"]
int_(n) == [t |-> "int", i |-> n]
str_(s) == [t |-> "str", s |-> s]
dict_(f) == [t |-> "dict", d |-> f]

\* bool(x), as "if v" and "if sort_order" take it
truthy(x) ==
    CASE x.t = "NoneType" -> FALSE
      [] x.t = "int" -> x.i # 0
      [] x.t = "str" -> x.s # ""
      [] x.t = "dict" -> DOMAIN x.d # {}

\* d.get(k, default)
py_get(d, k, default) == IF k \in DOMAIN d THEN d[k] ELSE default

\* s[:n]
py_slice(s, n) ==
    IF n >= 0 THEN SubSeq(s, 1, IF n < Len(s) THEN n ELSE Len(s))
    ELSE SubSeq(s, 1, IF Len(s) + n > 0 THEN Len(s) + n ELSE 0)

\* int(x) raises TypeError on None; the metadata of the model holds no other
\* type than int and None
py_int_raises(x) == x.t # "int"
py_int(x) == x.i

\* ------------------------------------------------------------- documents
MaxDocs == 3

\* Metadata as ingest_data.py:86-94 stores it, cut down to the two keys the
\* model filters and sorts on: "timestamp" is whatever the JSONL line holds (an
\* integer written by fetch_data.py:133, null in a file given with
\* --input-file).
Meta(direction, timestamp) ==
    [k \in {"direction", "timestamp"} |->
        IF k = "direction" THEN str_(direction) ELSE timestamp]

\* The ingest script of src/data-embedding stores neither key.
MetaUndated == EmptyDict

\* The kinds of document an index of the model holds; has_text is FALSE for a
\* JSONL line whose "text" is "" (ingest_data.py:85).
DocKinds ==
    {[metadata |-> Meta(d, int_(ts)), has_text |-> TRUE] :
        d \in {"Incoming", "Outgoing"}, ts \in {1, 2}}
    \cup {[metadata |-> MetaUndated, has_text |-> TRUE],
          [metadata |-> Meta("Outgoing", None), has_text |-> TRUE],
          [metadata |-> Meta("Incoming", int_(1)), has_text |-> FALSE]}

\* The documents of a store in the order its similarity search ranks them for
\* the query asked; document i has the text <<i>>.
Document(kinds, i) ==
    [id |-> i,
     page_content |-> IF kinds[i].has_text THEN <<i>> ELSE << >>,
     metadata |-> kinds[i].metadata]

Indexes ==
    UNION {{[i \in 1..n |-> Document(kinds, i)] : kinds \in [1..n -> DocKinds]} :
              n \in 0..MaxDocs}

\* ------------------------------------------------------ intent extraction
\* What filter_chain.invoke (main.py:213) can hand back: it raises, or
\* JsonOutputParser returns whatever JSON the model wrote. Absent marks a key
\* the mapping does not have.
Raised == [t |-> "raised"]
Absent == [t |-> "absent"]

FiltersWritten ==
    {Absent, None, str_("Incoming"), dict_(EmptyDict),
     dict_([k \in {"direction"} |-> str_("Incoming")]),
     dict_([k \in {"direction"} |-> str_("Outgoing")]),
     dict_([k \in {"direction"} |-> None])}

SortWritten == {Absent, None, str_("asc"), str_("desc"), str_("newest")}

LimitWritten ==
    {Absent, None, str_("five")} \cup {int_(n) : n \in {-1, 0, 1, 2, 21}}

Mapping(filters, sort, limit) ==
    LET written == [k \in {"filters", "sort", "limit"} |->
                       CASE k = "filters" -> filters
                         [] k = "sort" -> sort
                         [] k = "limit" -> limit]
    IN dict_([k \in {k \in DOMAIN written : written[k].t # "absent"} |->
                 written[k]])

IntentOutputs ==
    {Raised, None, str_("desc")}
    \cup {Mapping(f, s, l) :
             f \in FiltersWritten, s \in SortWritten, l \in LimitWritten}

\* main.py:211-217
intent_of(output) == IF output.t = "raised" THEN dict_(EmptyDict) ELSE output

\* main.py:220  intent.get and .items() raise AttributeError on anything but a
\* dict
filters_raises(intent) ==
    \/ intent.t # "dict"
    \/ py_get(intent.d, "filters", dict_(EmptyDict)).t # "dict"

\* main.py:220
filters_of(intent) ==
    LET items == py_get(intent.d, "filters", dict_(EmptyDict)).d
    IN [k \in {k \in DOMAIN items : truthy(items[k])} |-> items[k]]

\* main.py:221
sort_order_of(intent) == py_get(intent.d, "sort", None)

DefaultLimit == 5
LimitCap == 20
WideK == 5000

\* main.py:224-231
user_limit_of(intent) ==
    LET got == py_get(intent.d, "limit", int_(DefaultLimit))
        user_limit == IF got.t # "int" THEN DefaultLimit ELSE got.i
    IN IF user_limit > LimitCap THEN LimitCap ELSE user_limit

\* main.py:237-241
k_val_of(sort_order, user_limit) ==
    IF truthy(sort_order) THEN WideK ELSE user_limit

\* ------------------------------------------------------------- retrieval
\* vector_store.similarity_search(query, k=k, filter=filters), main.py:244-247:
\* the k best-ranked documents whose metadata equals the filter on every key of
\* it, in ranked order.
matches(metadata, filters) ==
    \A k \in DOMAIN filters :
        /\ k \in DOMAIN metadata
        /\ metadata[k] = filters[k]

Matching(indexed, filters) ==
    LET Test(d) == matches(d.metadata, filters) IN SelectSeq(indexed, Test)

similarity_search(indexed, k, filters) == py_slice(Matching(indexed, filters), k)

\* With k < 1 the search of the library either raises or slices as above.
SearchOutcomes(k) == IF k < 1 THEN {"raise", "slice"} ELSE {"slice"}

\* answer_chain.invoke (main.py:271) answers or raises
AnswerOutcomes == {"raise", "answer"}

\* main.py:258  x.metadata.get("timestamp", 0)
timestamp_of(d) == py_get(d.metadata, "timestamp", int_(0))

\* main.py:257-258  int(...) raises for one of the keys
key_raises(docs) == \E i \in DOMAIN docs : py_int_raises(timestamp_of(docs[i]))

key(d) == py_int(timestamp_of(d))

\* sorted(docs, key=..., reverse=reverse_mode), main.py:256-260: stable, and
\* stable under reverse as well
RECURSIVE py_sorted(_, _)
py_sorted(docs, reverse) ==
    IF docs = << >> THEN << >>
    ELSE LET x == docs[Len(docs)]
             before == py_sorted(SubSeq(docs, 1, Len(docs) - 1), reverse)
             stays(e) == IF reverse THEN key(e) >= key(x) ELSE key(e) <= key(x)
             n == Cardinality({i \in DOMAIN before : stays(before[i])})
         IN SubSeq(before, 1, n) \o <<x>> \o SubSeq(before, n + 1, Len(before))

\* main.py:253
reverse_mode(sort_order) == sort_order = str_("desc")

\* main.py:250-263 had the slice of line 263 been taken before the sort
final_docs_cut_first(pool, sort_order, user_limit) ==
    IF truthy(sort_order)
    THEN py_sorted(py_slice(pool, user_limit), reverse_mode(sort_order))
    ELSE pool

\* main.py:250-263
final_docs(pool, sort_order, user_limit) ==
    IF truthy(sort_order)
    THEN py_slice(py_sorted(pool, reverse_mode(sort_order)), user_limit)
    ELSE pool

\* "\n\n".join(...), main.py:266; the separator is the token 0
RECURSIVE join(_)
join(texts) ==
    IF texts = << >> THEN << >>
    ELSE IF Len(texts) = 1 THEN texts[1]
    ELSE join(SubSeq(texts, 1, Len(texts) - 1)) \o <<0>> \o texts[Len(texts)]

page_contents(docs) == [i \in DOMAIN docs |-> docs[i].page_content]

NoResults == "No relevant transactions found matching your criteria."

\* ------------------------------------------------------------ POST /chat
\* The handler from line 203 to its return, for one request at a time and no
\* build running: what a request is answered, given what the extractor, the
\* store and the answer chain hand back.

\* DB_ROOT / cleaned, main.py:65: with cleaned = "" it is DB_ROOT itself, which
\* exists once any tag's directory was made and holds no index file
target_dir(d, cleaned) ==
    IF cleaned \in DOMAIN d THEN d[cleaned]
    ELSE [dir |-> cleaned = << >> /\ \E t \in DOMAIN d : d[t].dir,
          faiss |-> NoFile, pkl |-> NoFile]

\* the response when the handler raised at a statement: no answer, no sources
Failed(tag, code, at) ==
    [op |-> "chat", tag |-> tag, status |-> Unknown, code |-> code,
     store |-> NoStore, raised_at |-> at, called |-> {}, output |-> None,
     indexed |-> << >>, filters |-> EmptyDict, sort_order |-> None,
     user_limit |-> 0, k_val |-> 0, pool |-> << >>, docs |-> << >>,
     context_text |-> << >>, answer |-> "", sources |-> << >>]

\* main.py:208-279 on a loaded store whose documents are ranked as indexed
chat_query(tag, store, output, indexed, search, answer) ==
    LET intent == intent_of(output)
        filters == filters_of(intent)
        sort_order == sort_order_of(intent)
        user_limit == user_limit_of(intent)
        k_val == k_val_of(sort_order, user_limit)
        pool == similarity_search(indexed, k_val, filters)
        docs == final_docs(pool, sort_order, user_limit)
        context_text == join(page_contents(docs))
        l213 == [Failed(tag, 500, "l220") EXCEPT
                    !.store = store, !.output = output, !.indexed = indexed,
                    !.called = {"filter_chain"}]
        l241 == [l213 EXCEPT
                    !.raised_at = "l245", !.filters = filters,
                    !.sort_order = sort_order, !.user_limit = user_limit,
                    !.k_val = k_val]
        l247 == [l241 EXCEPT !.raised_at = "l256", !.pool = pool]
        l266 == [l247 EXCEPT
                    !.raised_at = "l271", !.docs = docs,
                    !.context_text = context_text,
                    !.called = {"filter_chain", "answer_chain"}]
    IN IF filters_raises(intent) THEN l213
       ELSE IF search = "raise" THEN l241
       ELSE IF truthy(sort_order) /\ key_raises(pool) THEN l247
       ELSE IF context_text = << >>
       THEN [l266 EXCEPT !.code = 200, !.raised_at = "", !.answer = NoResults,
                         !.called = {"filter_chain"}]
       ELSE IF answer = "raise" THEN l266
       ELSE [l266 EXCEPT !.code = 200, !.raised_at = "",
                         !.answer = "answer_chain",
                         !.sources = page_contents(docs)]

\* the request is answered in one of the ways its collaborators allow
chat_respond(tag, store) ==
    \E output \in IntentOutputs, indexed \in Indexes :
        LET intent == intent_of(output)
            k_val == k_val_of(sort_order_of(intent), user_limit_of(intent))
            searches == IF filters_raises(intent) THEN {"slice"}
                        ELSE SearchOutcomes(k_val)
        IN \E search \in searches, answer \in AnswerOutcomes :
               resp' = chat_query(tag, store, output, indexed, search, answer)

chat_endpoint(tag) ==
    LET cleaned == sanitize_tag(tag)
        d == target_dir(disk, cleaned)
        store == [faiss |-> d.faiss, pkl |-> d.pkl]
    IN
    /\ hpc = "idle"
    /\ resp = NoResp
    /\ IF tag = << >>
       THEN resp' = Failed(tag, 400, "l204") /\ UNCHANGED VECTOR_CACHE
       ELSE IF lvs_cached(VECTOR_CACHE, cleaned)
       THEN /\ chat_respond(cleaned, VECTOR_CACHE[cleaned])
            /\ UNCHANGED VECTOR_CACHE
       ELSE IF ~lvs_exists(d)
       THEN resp' = Failed(cleaned, 404, "l67") /\ UNCHANGED VECTOR_CACHE
       ELSE IF ~(lvs_faiss_ok(d) /\ lvs_pkl_ok(d))
       THEN resp' = Failed(cleaned, 500, "l73") /\ UNCHANGED VECTOR_CACHE
       ELSE /\ VECTOR_CACHE' = lvs_store(VECTOR_CACHE, cleaned, store)
            /\ chat_respond(cleaned, store)
    /\ UNCHANGED <<PREP_STATUS, jsonl, disk, nthreads, wpc, wargs, fetch_res,
                   wstore, hpc, hreq, hstore>>

QueryTags == RawTags \cup {<<".">>, << >>}

\* the response has gone to the client, who may ask again
chat_endpoint_sent ==
    /\ resp.op = "chat"
    /\ resp' = NoResp
    /\ UNCHANGED <<PREP_STATUS, VECTOR_CACHE, jsonl, disk, nthreads, wpc, wargs,
                   fetch_res, wstore, hpc, hreq, hstore>>

QueryNext ==
    \/ \E tag \in QueryTags : chat_endpoint(tag)
    \/ chat_endpoint_sent

QuerySpec == Init /\ [][QueryNext]_vars

\* ------------------------------------------------------ tags and paths
\* Where one identifier leads on each path: the tag of /prepare and of the
\* worker, the tag and the file of fetch_data.py, the file and the directory of
\* ingest_data.py, the directory load_vector_store looks in.
MaxTagLen == 3

\* a lowercase letter, an uppercase letter, the dash, a character outside the
\* class
RawChars == {"a", "A", "-", "."}

RawStrings == UNION {[1..n -> RawChars] : n \in 0..MaxTagLen}

\* scripts/ingest_data.py:32-36
ingest_sanitize_tag(tag) == lower(strip(re_sub(tag, FALSE)))

\* a file of data/processed: <tag>_documents.jsonl, or documents.jsonl
Tagged(tag) == [tagged |-> TRUE, tag |-> tag]
DEFAULT_INPUT_FILE == [tagged |-> FALSE, tag |-> << >>]

\* fetch_data.py:215  PROC_DIR / f"{tag}_documents.jsonl"
processed_path(tag) == Tagged(tag)

\* ingest_data.py:38-51 without --input-file; "if tag" is false for ""
resolve_input_file(tag) ==
    IF tag # << >> THEN Tagged(ingest_sanitize_tag(tag)) ELSE DEFAULT_INPUT_FILE

\* a directory at or below the root: root / sub, and the root itself for ""
Under(sub) == [root |-> "vector_db", sub |-> sub]

\* ingest_data.py:53-61 with --db-dir DB_ROOT
resolve_db_dir(tag) ==
    IF tag # << >> THEN Under(ingest_sanitize_tag(tag)) ELSE Under(<< >>)

\* main.py:64-65  DB_ROOT / cleaned
lvs_target_dir(tag) == Under(sanitize_tag(tag))

\* main.py:183, 80, 83-103 and the scripts' mains for one identifier, the
\* fetch script reading the clock at now; fetch_again is the tag fetch_data.py
\* computes for the same identifier when it reads the clock at later
PathsOf(address, now, later) ==
    LET tag == sanitize_tag(address)
        cleaned == sanitize_tag(tag)
        fetch_tag == fetch_sanitize_tag(address, now)
    IN [op |-> "paths", address |-> address, now |-> now, later |-> later,
        tag |-> tag, cleaned |-> cleaned,
        fetch_tag |-> fetch_tag,
        fetch_again |-> fetch_sanitize_tag(address, later),
        fetch_file |-> processed_path(fetch_tag),
        ingest_file |-> resolve_input_file(cleaned),
        ingest_dir |-> resolve_db_dir(cleaned),
        query_dir |-> lvs_target_dir(address)]

tag_paths(address, now, later) ==
    /\ resp = NoResp
    /\ resp' = PathsOf(address, now, later)
    /\ UNCHANGED <<PREP_STATUS, VECTOR_CACHE, jsonl, disk, nthreads, wpc, wargs,
                   fetch_res, wstore, hpc, hreq, hstore>>

tag_paths_return ==
    /\ resp.op = "paths"
    /\ resp' = NoResp
    /\ UNCHANGED <<PREP_STATUS, VECTOR_CACHE, jsonl, disk, nthreads, wpc, wargs,
                   fetch_res, wstore, hpc, hreq, hstore>>

TagNext ==
    \/ \E address \in RawStrings, now \in Clock, later \in Clock :
           now <= later /\ tag_paths(address, now, later)
    \/ tag_paths_return

TagSpec == Init /\ [][TagNext]_vars

\* ------------------------------------------------------------- job states
\* The five states of a job record as a polling client tells them apart: the
\* code keeps queued, fetching and embedding as "running" with three messages.
JobState(r) ==
    IF r.state # "running" THEN r.state
    ELSE IF r.message = "Queued..." THEN "queued"
    ELSE IF r.message = "Fetching data..." THEN "fetching"
    ELSE "embedding"

InFlight == {"queued", "fetching", "embedding"}

StateOf(t) == IF Has(PREP_STATUS, t) THEN JobState(PREP_STATUS[t]) ELSE "absent"

BuildsFor(t) == {w \in Threads : Alive(w) /\ Cleaned(w) = t}

\* C1: at most one run_pipeline thread per tag is alive at any time, under
\* every interleaving of /prepare requests and worker threads.
AtMostOneBuildPerTag == \A t \in Tags : Cardinality(BuildsFor(t)) <= 1

\* a second trigger for a tag was answered with the existing record while the
\* tag's build was still running
SecondTriggerDuringBuild ==
    /\ resp.op = "prepare_existing"
    /\ BuildsFor(resp.tag) # {}
    /\ nthreads = 1

\* C2: a /prepare for a tag whose record is queued, fetching, embedding or
\* done answers with the existing record, starts no thread and leaves
\* PREP_STATUS and VECTOR_CACHE as they were.
PrepareExistingIsNoOp ==
    [][\A a \in Addresses :
         (/\ StateOf(sanitize_tag(a)) \in InFlight \cup {"done"}
          /\ prepare_endpoint_check(a))
         => /\ resp' = StatusResp("prepare_existing", sanitize_tag(a),
                                  PREP_STATUS[sanitize_tag(a)])
            /\ UNCHANGED <<PREP_STATUS, VECTOR_CACHE, nthreads, wpc, hpc>>]_vars

\* a trigger for a tag that is done was answered with the done record
PrepareOnDoneAnswered ==
    /\ resp.op = "prepare_existing"
    /\ JobState(resp.status) = "done"

\* C3: a record is in flight only while a build for its tag is running; it
\* does not stay queued, fetching or embedding once the worker has finished.
InFlightHasWorker ==
    \A t \in Tags : StateOf(t) \in InFlight => BuildsFor(t) # {}

\* C4: a done record never changes, and an error record changes only through
\* a new trigger for its tag (the trigger's own write or its build's).
TerminalStatesAreTerminal ==
    [][\A t \in Tags :
         /\ StateOf(t) = "done" => PREP_STATUS'[t] = PREP_STATUS[t]
         /\ (StateOf(t) = "error" /\ PREP_STATUS'[t] # PREP_STATUS[t])
            => \/ hpc = "l191" /\ hreq.tag = t
               \/ BuildsFor(t) # {}]_vars

\* C5: the record of a tag never moves backward in the order queued,
\* fetching, embedding, done/error; only a new trigger on an error record
\* restarts it from queued.
Rank(st) ==
    CASE st = "absent" -> 0
      [] st = "queued" -> 1
      [] st = "fetching" -> 2
      [] st = "embedding" -> 3
      [] OTHER -> 4

StatusNeverMovesBackward ==
    [][\A t \in Tags :
         \/ Rank(StateOf(t)') >= Rank(StateOf(t))
         \/ StateOf(t) = "error" /\ StateOf(t)' = "queued"]_vars

\* C6: a build whose fetch stage failed has an error record and does not go
\* on to the embedding stage.
FetchFailed(w) == fetch_res[w] \in {"apifail", "crash"}

FetchFailureStopsBuild ==
    \A w \in Threads :
        FetchFailed(w) => /\ wpc[w] # "l103"
                          /\ StateOf(Cleaned(w)) = "error"

\* C7: a tag whose record is done has a persisted index that loads.
Loadable(d) == d.dir /\ d.faiss # NoFile /\ d.pkl # NoFile

DoneMeansIndexAvailable ==
    \A t \in Tags : StateOf(t) = "done" => Loadable(disk[t])

\* C8: the response to a trigger that started a build carries the queued
\* status.
TriggerAnswersQueued ==
    resp.op = "prepare_started" => JobState(resp.status) = "queued"

\* C9: a status poll changes neither PREP_STATUS nor VECTOR_CACHE, answers
\* with the tag's record when there is one and with the unknown sentinel, as
\* a normal response, when there is none.
StatusIsPureRead ==
    [][resp'.op = "status"
       => /\ UNCHANGED <<PREP_STATUS, VECTOR_CACHE>>
          /\ resp'.code = 200
          /\ IF Has(PREP_STATUS, resp'.tag)
             THEN resp'.status = PREP_STATUS[resp'.tag]
             ELSE resp'.status.state = "unknown"]_vars

\* a poll for a never-triggered tag was answered unknown while another tag
\* has a record
StatusUnknownAnswered ==
    /\ resp.op = "status"
    /\ resp.status.state = "unknown"
    /\ PREP_STATUS # EmptyDict

\* C10: once a build that wrote an index has ended after its warm reload, and
\* no query is in the middle of a cache load, the cache entry of the tag is
\* the index that build wrote.
FullIndex(v) == [faiss |-> v, pkl |-> v]

WarmedCacheIsFresh ==
    \A w \in Threads :
        (/\ wpc[w] = "exit_ok"
         /\ disk[Cleaned(w)] = [dir |-> TRUE, faiss |-> IndexOf(w), pkl |-> IndexOf(w)]
         /\ hpc = "idle")
        => /\ Has(VECTOR_CACHE, Cleaned(w))
           /\ VECTOR_CACHE[Cleaned(w)] = FullIndex(IndexOf(w))

\* C11: a query is never answered from, and the cache never holds, an index
\* whose two files come from different writes of it.
Complete(store) == store.faiss = store.pkl /\ store.faiss # NoFile

QueryNeverSeesHalfWrittenIndex ==
    /\ (resp.op = "chat" /\ resp.code = 200) => Complete(resp.store)
    /\ \A t \in DOMAIN VECTOR_CACHE : Complete(VECTOR_CACHE[t])

\* C12: a successful get leaves its handle in the cache; a cached entry is
\* returned as it is, is replaced by no other handle, and leaves the cache
\* only through the pop of main.py:110.
CachedEntryStaysUntilInvalidated ==
    [][/\ (resp'.op = "chat" /\ resp'.code = 200)
          => /\ Has(VECTOR_CACHE', resp'.tag)
             /\ VECTOR_CACHE'[resp'.tag] = resp'.store
       /\ \A t \in DOMAIN VECTOR_CACHE :
            /\ Has(VECTOR_CACHE', t) => VECTOR_CACHE'[t] = VECTOR_CACHE[t]
            /\ ~Has(VECTOR_CACHE', t)
               => \E w \in Threads : wpc[w] = "l110" /\ Cleaned(w) = t
            /\ (resp'.op = "chat" /\ resp'.tag = t /\ hpc = "idle")
               => resp'.store = VECTOR_CACHE[t]]_vars

\* C13: a load that misses the cache answers 404 exactly when the tag's
\* directory does not exist and 500 exactly when it exists and a file of the
\* index cannot be read; neither changes the cache.
LoadStep == hpc \in {"lvs66", "lvs69b"} /\ hpc' # hpc

MissFailsByStorage ==
    [][LoadStep =>
         /\ resp'.code = 404 <=> ~disk[hreq.tag].dir
         /\ resp'.code = 500
            <=> /\ disk[hreq.tag].dir
                /\ \/ hpc = "lvs66" /\ disk[hreq.tag].faiss = NoFile
                   \/ hpc = "lvs69b" /\ disk[hreq.tag].pkl = NoFile
         /\ resp'.code \in {404, 500} => UNCHANGED VECTOR_CACHE]_vars

\* a query met a directory whose index was not written yet and got the 500
LoadFailedAnswered == resp.op = "chat" /\ resp.code = 500 /\ disk[resp.tag].dir

\* ------------------------------------------------- how far a query came
\* resp.raised_at names the statement a failed request raised at
Asked == resp.op = "chat"
Loaded == Asked /\ resp.raised_at \notin {"l204", "l67", "l73"}
Planned == Asked /\ resp.raised_at \in {"l245", "l256", "l271", ""}
Searched == Asked /\ resp.raised_at \in {"l256", "l271", ""}
Retrieved == Asked /\ resp.raised_at \in {"l271", ""}

WideNet == Retrieved /\ resp.sort_order \in {str_("asc"), str_("desc")}

\* a is not later in time-order than b under the sort asked for
InOrder(a, b) ==
    IF resp.sort_order = str_("desc") THEN key(a) >= key(b) ELSE key(a) <= key(b)

StrictlyInOrder(a, b) ==
    IF resp.sort_order = str_("desc") THEN key(a) > key(b) ELSE key(a) < key(b)

Range(s) == {s[i] : i \in DOMAIN s}

Min(a, b) == IF a < b THEN a ELSE b

DirectMode == Retrieved /\ resp.sort_order \in {None, Absent}

DirectModeTopLimit ==
    DirectMode
    => LET all == Matching(resp.indexed, resp.filters) IN
       /\ Len(resp.docs) <= resp.user_limit
       /\ resp.docs = SubSeq(all, 1, Min(resp.user_limit, Len(all)))

\* C17: the limit a planned query uses lies in 1..20; it is 5 when the
\* extractor wrote no limit or no integer, and 20 when it wrote more than 20.
LimitWrittenBy(output) == py_get(intent_of(output).d, "limit", Absent)

LimitAlwaysInRange ==
    Planned
    => LET written == LimitWrittenBy(resp.output) IN
       /\ resp.user_limit \in 1..LimitCap
       /\ written.t # "int" => resp.user_limit = DefaultLimit
       /\ (written.t = "int" /\ written.i > LimitCap) => resp.user_limit = LimitCap

\* C18: when the extractor raises, returns something that is no mapping, or
\* returns a mapping whose "filters" is no mapping, the query goes on with the
\* default for what it could not read: it does not raise at line 220, filters
\* nothing, and with no mapping at all neither sorts nor leaves the limit 5.
Malformed(output) ==
    \/ output.t # "dict"
    \/ py_get(output.d, "filters", dict_(EmptyDict)).t # "dict"

MalformedIntentIsDefaulted ==
    (Loaded /\ Malformed(resp.output))
    => /\ Planned
       /\ resp.filters = EmptyDict
       /\ resp.output.t # "dict"
          => resp.sort_order = None /\ resp.user_limit = DefaultLimit

\* C19: a sort that is neither "asc" nor "desc" is taken as no sort: the search
\* is asked for user_limit documents and its result is not re-ordered.
SortOtherThanAscDescIsAbsent ==
    (Planned /\ resp.sort_order \notin {str_("asc"), str_("desc")})
    => /\ resp.k_val = resp.user_limit
       /\ Retrieved => resp.docs = resp.pool

\* C20: in a sorted query a pooled document whose timestamp is missing or is
\* no integer does not fail the query, is ordered as timestamp 0 and is cut
\* from the result by the limit alone.
key0(d) == IF py_int_raises(timestamp_of(d)) THEN 0 ELSE key(d)

Sorting == Searched /\ truthy(resp.sort_order)

UncoercibleTimestampIsZero ==
    Sorting
    => /\ Retrieved
       /\ Len(resp.docs) = Len(py_slice(resp.pool, resp.user_limit))
       /\ Range(resp.docs) \subseteq Range(resp.pool)
       /\ \A i \in DOMAIN resp.docs, j \in DOMAIN resp.docs :
            i < j => IF reverse_mode(resp.sort_order)
                     THEN key0(resp.docs[i]) >= key0(resp.docs[j])
                     ELSE key0(resp.docs[i]) <= key0(resp.docs[j])

\* C21: a query whose final document set is empty is answered the fixed
\* message with no sources and without the answer chain; one whose final set
\* is not empty calls the answer chain and, when that answers, returns the
\* texts of those documents in their final order.
EmptySetShortCircuitsElseSynthesis ==
    Retrieved
    => IF resp.docs = << >>
       THEN /\ resp.code = 200
            /\ resp.answer = NoResults
            /\ resp.sources = << >>
            /\ "answer_chain" \notin resp.called
       ELSE /\ "answer_chain" \in resp.called
            /\ resp.code = 200
               => /\ resp.answer = "answer_chain"
                  /\ resp.sources = page_contents(resp.docs)

\* ----------------------------------------------------------- tag claims
Normalised == resp.op = "paths"

\* C22: for every identifier the fetch script's tag is the backend's tag, the
\* file the fetch script writes is the file the ingest script reads, and the
\* directory the ingest script writes is the directory a query looks in.
FetchIngestAndQueryShareTheTag ==
    (Normalised /\ resp.address # << >>)
    => /\ resp.fetch_tag = resp.tag
       /\ resp.cleaned = resp.tag
       /\ resp.fetch_file = resp.ingest_file
       /\ resp.ingest_dir = resp.query_dir

\* C23: the backend's and the fetch script's normaliser both return a
\* non-empty tag for every raw string.
TagNeverEmpty ==
    Normalised => resp.tag # << >> /\ resp.fetch_tag # << >>

\* C24 as stated: two calls on one input return one tag, and normalising a
\* tag returns it, for the backend's and for the fetch script's normaliser.
NormaliseDeterministicIdempotent ==
    Normalised
    => /\ sanitize_tag(resp.address) = resp.tag
       /\ resp.fetch_again = resp.fetch_tag
       /\ sanitize_tag(resp.tag) = resp.tag
       /\ fetch_sanitize_tag(resp.fetch_tag, resp.later) = resp.fetch_tag

\* C24, amended: both normalisers return a tag unchanged; the backend's
\* returns one tag per input, and so does the fetch script's for every input
\* that cleans to a non-empty tag, and for an input that cleans to "" as long
\* as both calls read the same second.
IdempotentAndDeterministicButForFallback ==
    Normalised
    => /\ sanitize_tag(resp.address) = resp.tag
       /\ sanitize_tag(resp.tag) = resp.tag
       /\ fetch_sanitize_tag(resp.fetch_tag, resp.later) = resp.fetch_tag
       /\ (resp.tag # << >> \/ resp.now = resp.later)
          => resp.fetch_again = resp.fetch_tag
       /\ (resp.tag = << >> /\ resp.now # resp.later)
          => resp.fetch_again # resp.fetch_tag

\* an identifier of dashes, a bad character and an uppercase letter came out
\* as a different, non-empty tag
RawTagCleaned ==
    /\ Normalised
    /\ resp.tag # << >>
    /\ resp.tag # resp.address
    /\ \E i \in DOMAIN resp.address : resp.address[i] = "."
    /\ \E i \in DOMAIN resp.address : resp.address[i] = "A"

\* C25: while the build that made a tag "done" is still at or after line 108
\* and its index is the one on disk, a query started then is answered from
\* that index, not from what the cache held before.
DoneBy(w, t) ==
    /\ Cleaned(w) = t
    /\ wpc[w] \in {"l110", "lvs62", "lvs66", "lvs70"}
    /\ StateOf(t) = "done"
    /\ disk[t] = [dir |-> TRUE, faiss |-> IndexOf(w), pkl |-> IndexOf(w)]

QueryAfterDoneGetsNewIndex ==
    [][\A w \in Threads :
         (/\ hpc = "idle"
          /\ resp'.op = "chat"
          /\ resp'.code = 200
          /\ DoneBy(w, resp'.tag))
         => resp'.store = FullIndex(IndexOf(w))]_vars

\* C26: a step changes the job record and the cache entry of no tag but the
\* one it acts for, builds for different tags running side by side.
EntryChanged(d, e, t) ==
    \/ Has(d, t) # Has(e, t)
    \/ Has(d, t) /\ Has(e, t) /\ d[t] # e[t]

ActsFor(t) ==
    \/ \E w \in Threads : wpc'[w] # wpc[w] /\ Alive(w) /\ Cleaned(w) = t
    \/ hpc # "idle" /\ hreq.tag = t
    \/ hpc = "idle" /\ (hreq'.tag = t \/ resp'.tag = t)

OtherTagsUntouched ==
    [][\A t \in Tags :
         (\/ EntryChanged(PREP_STATUS, PREP_STATUS', t)
          \/ EntryChanged(VECTOR_CACHE, VECTOR_CACHE', t))
         => ActsFor(t)]_vars

\* builds for two tags are alive together, each tag with a record, and the
\* cache holds an entry
TwoTagsBuilding ==
    /\ \E v \in Threads, w \in Threads :
         /\ Alive(v) /\ Alive(w) /\ Cleaned(v) # Cleaned(w)
         /\ Has(PREP_STATUS, Cleaned(v)) /\ Has(PREP_STATUS, Cleaned(w))
    /\ VECTOR_CACHE # EmptyDict

====
